---- MODULE Spec2Model ----
(***************************************************************************)
(* Pyramid focus-stacking (python/fs_pyramid.py, stacker.py) as a state    *)
(* machine.  One run is one call of stack_images: np.asarray, the depth    *)
(* selection, laplacian_pyramid, fuse_pyramids and collapse.               *)
(*                                                                         *)
(* Numbers.  The code works in float32.  Here a sample is an integer count *)
(* of 1/One units (fixed point).  Additions, subtractions and the halving  *)
(* of the base band are exact; a convolution result is rounded to the      *)
(* nearest even count, as float32 rounds a filter output to its mantissa.  *)
(* Statistic maps that are only ever compared across layers (deviation,    *)
(* region energy) are kept as exact integers scaled by a layer-independent *)
(* factor; the natural logarithm of the entropy map is a rounded table.    *)
(*                                                                         *)
(* Arrays.  An image is a tuple of rows, a row a tuple of pixels, a pixel  *)
(* a tuple of channel samples; a level is a tuple of images (one per       *)
(* layer); a pyramid is a tuple of levels.  Indices are 1-based here and   *)
(* 0-based in the code.                                                    *)
(***************************************************************************)
EXTENDS Integers, Sequences, FiniteSets, TLC

VARIABLES pc, images, min_size, depth, gaussian, pyramids, fusion, image, layer

vars == <<pc, images, min_size, depth, gaussian, pyramids, fusion, image, layer>>

(* ------------------------------ bounds --------------------------------- *)
MaxSide == 3
MaxLayers == 2
MaxVal == 3
MaxMinSize == 2
MaxDepth == 2
MaxBigSide == 6
MaxBigMinSize == 4

(* ------------------------- program constants --------------------------- *)
DefaultMinSize == 32
KernelSize == 5
DefaultA20 == 8

One == 2 ^ 7
(* a raised exception, as the value of the operation that raised it; every
   array of the program has at least one row, so it is no array *)
ValueError == << >>

Min(a, b) == IF a < b THEN a ELSE b
Max(a, b) == IF a > b THEN a ELSE b

RECURSIVE SumSeq(_)
SumSeq(s) == IF Len(s) = 0 THEN 0 ELSE Head(s) + SumSeq(Tail(s))

(* the tuple of the values of f, f a function on 1..n: an array held by
   value, every element computed once *)
Arr(f) == << >> \o f

(* arrays of a given shape from their element expression *)
Array2(h, w, F(_, _)) == Arr([r \in 1..h |-> Arr([c \in 1..w |-> F(r, c)])])

Array3(h, w, ch, F(_, _, _)) ==
    Arr([r \in 1..h |-> Arr([c \in 1..w |-> Arr([k \in 1..ch |-> F(r, c, k)])])])

(* pyramid[::-1] *)
Reverse(s) == Arr([i \in 1..Len(s) |-> s[Len(s) + 1 - i]])

(* ndarray.shape of one image *)
Shape(img) == <<Len(img), Len(img[1]), Len(img[1][1])>>

(* images.astype(INTERNAL_DTYP): integer samples become fixed-point counts *)
AsFloat(img) ==
    Array3(Len(img), Len(img[1]), Len(img[1][1]), LAMBDA r, c, k : img[r][c][k] * One)

(* rounding of a filter output sum/div to the nearest even count *)
RoundQ(sum, div) == 2 * ((sum + div) \div (2 * div))

(* cv2 borderInterpolate for BORDER_REFLECT_101, 0-based *)
RECURSIVE Reflect101(_, _)
Reflect101(p, len) ==
    IF len = 1 THEN 0
    ELSE IF p < 0 THEN Reflect101(-p, len)
    ELSE IF p >= len THEN Reflect101(2 * len - 2 - p, len)
    ELSE p

(* 1-D binomial kernel of cv2.pyrDown / cv2.pyrUp: [1 4 6 4 1] / 16 *)
PyrKernel == <<1, 4, 6, 4, 1>>

(* cv2.pyrDown: 5x5 Gaussian, reflect-101 border, keep even rows/columns;
   output size (n + 1) / 2 *)
PyrDown(img) ==
    LET h == Len(img)
        w == Len(img[1])
    IN Array3((h + 1) \div 2, (w + 1) \div 2, Len(img[1][1]),
         LAMBDA y, x, k :
           RoundQ(SumSeq([i \in 1..5 |-> PyrKernel[i] *
                    SumSeq([j \in 1..5 |-> PyrKernel[j] *
                      img[Reflect101(2 * (y - 1) + i - 3, h) + 1]
                         [Reflect101(2 * (x - 1) + j - 3, w) + 1][k]])]),
                  256))

(* source index of cv2.pyrUp at the border: row/column -1 mirrors to 1
   (to 0 when there is a single one), row/column n repeats n - 1 *)
UpIdx(p, len) ==
    IF p < 0 THEN (IF len = 1 THEN 0 ELSE -p)
    ELSE IF p >= len THEN len - 1
    ELSE p

(* taps <<source index (1-based), weight>> of output index P (0-based) of
   cv2.pyrUp along one axis: even outputs (1 6 1)/8, odd outputs (4 4)/8 *)
UpTaps(P, len) ==
    LET s == P \div 2
    IN IF P % 2 = 0
       THEN << <<UpIdx(s - 1, len) + 1, 1>>, <<s + 1, 6>>, <<UpIdx(s + 1, len) + 1, 1>> >>
       ELSE << <<s + 1, 4>>, <<UpIdx(s + 1, len) + 1, 4>> >>

(* cv2.pyrUp: output size 2n per axis, zero insertion smoothed with 4x the
   pyrDown kernel *)
PyrUp(img) ==
    LET h == Len(img)
        w == Len(img[1])
    IN Array3(2 * h, 2 * w, Len(img[1][1]),
         LAMBDA Y, X, k :
           LET tr == UpTaps(Y - 1, h)
               tc == UpTaps(X - 1, w)
           IN RoundQ(SumSeq([i \in 1..Len(tr) |-> tr[i][2] *
                       SumSeq([j \in 1..Len(tc) |-> tc[j][2] * img[tr[i][1]][tc[j][1]][k]])]),
                     64))

(* faulty variant of Crop: the crop is forgotten *)
CropNone(expanded, shape) == expanded

(* expanded[: shape[0], : shape[1]] taken when the shapes differ: slicing
   only ever removes trailing rows and columns *)
Crop(expanded, shape) ==
    IF Shape(expanded) # shape
    THEN Array2(Min(Len(expanded), shape[1]), Min(Len(expanded[1]), shape[2]),
                LAMBDA r, c : expanded[r][c])
    ELSE expanded

(* numpy broadcasting of two images under an elementwise operation *)
BroadcastOk(a, b) ==
    \A i \in 1..3 : Shape(a)[i] = Shape(b)[i] \/ Shape(a)[i] = 1 \/ Shape(b)[i] = 1

At(a, r, c, k) ==
    a[IF Len(a) = 1 THEN 1 ELSE r][IF Len(a[1]) = 1 THEN 1 ELSE c]
     [IF Len(a[1][1]) = 1 THEN 1 ELSE k]

(* a - b *)
Sub(a, b) ==
    IF ~BroadcastOk(a, b) THEN ValueError
    ELSE Array3(Max(Len(a), Len(b)), Max(Len(a[1]), Len(b[1])),
                Max(Len(a[1][1]), Len(b[1][1])),
                LAMBDA r, c, k : At(a, r, c, k) - At(b, r, c, k))

(* a + b *)
Add(a, b) ==
    IF ~BroadcastOk(a, b) THEN ValueError
    ELSE Array3(Max(Len(a), Len(b)), Max(Len(a[1]), Len(b[1])),
                Max(Len(a[1][1]), Len(b[1][1])),
                LAMBDA r, c, k : At(a, r, c, k) + At(b, r, c, k))

(* gaussian_pyramid: level 1 is the stack in working precision, every
   further level is cv2.pyrDown of the previous one, layer by layer;
   range(levels) is empty for levels <= 0 *)
RECURSIVE GaussianLoop(_, _)
GaussianLoop(pyramid, n) ==
    IF n <= 0 THEN pyramid
    ELSE GaussianLoop(
           Append(pyramid,
                  Arr([l \in 1..Len(pyramid[1]) |-> PyrDown(pyramid[Len(pyramid)][l])])),
           n - 1)

(* faulty variant of gaussian_pyramid: the loop runs abs(levels) times *)
gaussian_pyramid_abs(imgs, levels) ==
    GaussianLoop(<< Arr([l \in 1..Len(imgs) |-> AsFloat(imgs[l])]) >>,
                 IF levels < 0 THEN 0 - levels ELSE levels)

gaussian_pyramid(imgs, levels) ==
    GaussianLoop(<< Arr([l \in 1..Len(imgs) |-> AsFloat(imgs[l])]) >>, levels)

(* one layer of one Laplacian level: gauss_layer - cropped pyrUp of the next
   coarser Gaussian level *)
LaplacianLayer(gauss_layer, coarser) ==
    Sub(gauss_layer, Crop(PyrUp(coarser), Shape(gauss_layer)))

(* the loop of laplacian_pyramid, level = len(gaussian) - 1 down to 1
   (0-based), building the pyramid coarsest first *)
RECURSIVE LaplacianLoop(_, _, _)
LaplacianLoop(gauss, level, pyramid) ==
    IF level < 2 THEN pyramid
    ELSE LaplacianLoop(gauss, level - 1,
           Append(pyramid, Arr([l \in 1..Len(gauss[1]) |->
                                  LaplacianLayer(gauss[level - 1][l], gauss[level][l])])))

(* laplacian_pyramid given its Gaussian pyramid: coarsest Gaussian level
   first, then the detail levels, returned reversed (finest first) *)
LaplacianOf(gauss) ==
    LET built == LaplacianLoop(gauss, Len(gauss), << gauss[Len(gauss)] >>)
    IN IF \E lv \in 1..Len(built) : \E l \in 1..Len(built[lv]) : built[lv][l] = ValueError
       THEN ValueError
       ELSE Reverse(built)

laplacian_pyramid(imgs, levels) == LaplacianOf(gaussian_pyramid(imgs, levels))

(* faulty variant of CollapseStep: the level is subtracted instead of added *)
CollapseStepMinus(img, lay) == Sub(Crop(PyrUp(img), Shape(lay)), lay)

(* one step of collapse: image = crop(pyrUp(image)) + layer *)
CollapseStep(img, lay) == Add(Crop(PyrUp(img), Shape(lay)), lay)

(* the loop of collapse over pyramid[-2::-1] *)
RECURSIVE CollapseLoop(_, _, _)
CollapseLoop(pyramid, idx, img) ==
    IF idx < 1 \/ img = ValueError THEN img
    ELSE CollapseLoop(pyramid, idx - 1, CollapseStep(img, pyramid[idx]))

collapse(pyramid) == CollapseLoop(pyramid, Len(pyramid) - 1, pyramid[Len(pyramid)])

(* --------------------------- statistics -------------------------------- *)

(* laplacians[layer][:, :, channel] *)
Channel(img, k) == Array2(Len(img), Len(img[1]), LAMBDA r, c : img[r][c][k])

(* .astype(np.uint8) of a float32 sample: the fraction is dropped, the
   integer part is kept modulo 256 *)
ToUint8(x) == (x \div One) % 256

(* images[layer][:, :, channel].astype(np.uint8) *)
GrayImage(img, k) == Array2(Len(img), Len(img[1]), LAMBDA r, c : ToUint8(img[r][c][k]))

(* np.log as a rounded table: LnTable[n] = round(1024 * ln n) *)
LnTable == <<0, 710, 1125, 1420, 1648, 1835, 1993, 2129, 2250, 2358, 2455, 2545,
             2627, 2702, 2773, 2839, 2901, 2960, 3015, 3068, 3118, 3165, 3211, 3254,
             3296, 3336, 3375, 3412, 3448, 3483, 3516, 3549, 3580, 3611, 3641, 3670>>

(* get_probabilities: the number of pixels of every grey level present; the
   probability of a level is its count over the number of pixels *)
Counts(gray) ==
    LET cells == (1..Len(gray)) \X (1..Len(gray[1]))
        levels == {gray[p[1]][p[2]] : p \in cells}
    IN [v \in levels |-> Cardinality({p \in cells : gray[p[1]][p[2]] = v})]

(* np.log(probabilities[level]), scaled by 1024 *)
LogProbability(counts, total, level) == LnTable[counts[level]] - LnTable[total]

(* the kernel_size x kernel_size window of the reflect-101 padded image
   around one pixel, flattened *)
Area(gray, r, c, kernel_size) ==
    LET pad == (kernel_size - 1) \div 2
        n == 2 * pad + 1
        h == Len(gray)
        w == Len(gray[1])
    IN Arr([i \in 1..(n * n) |->
         gray[Reflect101(r - 1 + ((i - 1) \div n) - pad, h) + 1]
             [Reflect101(c - 1 + ((i - 1) % n) - pad, w) + 1]])

(* _area_entropy: -sum(level * log(probabilities[level])) over the window *)
AreaEntropy(area, logp) ==
    0 - SumSeq([i \in 1..Len(area) |-> area[i] * logp[area[i]]])

(* _area_deviation: sum((area - average)^2) / area.size, scaled by
   area.size^2 (the same for every layer) *)
AreaDeviation(area) ==
    LET s == SumSeq(area)
    IN Len(area) * SumSeq([i \in 1..Len(area) |-> area[i] * area[i]]) - s * s

(* entropy_deviation: the two maps of one grey image *)
EntropyMap(gray, kernel_size) ==
    LET counts == Counts(gray)
        total == Len(gray) * Len(gray[1])
        logp == [v \in DOMAIN counts |-> LogProbability(counts, total, v)]
    IN Array2(Len(gray), Len(gray[1]),
              LAMBDA r, c : AreaEntropy(Area(gray, r, c, kernel_size), logp))

DeviationMap(gray, kernel_size) ==
    Array2(Len(gray), Len(gray[1]),
           LAMBDA r, c : AreaDeviation(Area(gray, r, c, kernel_size)))

(* generating_kernel(a) in twentieths: [0.25 - a/2, 0.25, a, 0.25, 0.25 - a/2] * 20 *)
generating_kernel(a20) == <<5 - a20 \div 2, 5, a20, 5, 5 - a20 \div 2>>

(* convolve: cv2.filter2D with the outer product of the generating kernel,
   BORDER_REFLECT_101, same size; the result is scaled by 20 * 20 *)
convolve(arr) ==
    LET ker == generating_kernel(DefaultA20)
        h == Len(arr)
        w == Len(arr[1])
    IN Array2(h, w, LAMBDA r, c :
         SumSeq([i \in 1..5 |-> ker[i] *
           SumSeq([j \in 1..5 |-> ker[j] *
             arr[Reflect101(r - 1 + i - 3, h) + 1][Reflect101(c - 1 + j - 3, w) + 1]])]))

(* region_energy: convolve(np.square(laplacian)) *)
region_energy(lap) ==
    convolve(Array2(Len(lap), Len(lap[1]), LAMBDA r, c : lap[r][c] * lap[r][c]))

(* faulty variant of ArgMax: the last index of the maximum *)
ArgMaxLast(vals) ==
    CHOOSE l \in 1..Len(vals) :
        /\ \A m \in 1..Len(vals) : vals[m] <= vals[l]
        /\ \A m \in (l + 1)..Len(vals) : vals[m] < vals[l]

(* faulty variant of ArgMax: always the first layer *)
ArgMaxFirstLayer(vals) == 1

(* np.argmax over the layer axis at one pixel: the first index of the maximum *)
ArgMax(vals) ==
    CHOOSE l \in 1..Len(vals) :
        /\ \A m \in 1..Len(vals) : vals[m] <= vals[l]
        /\ \A m \in 1..(l - 1) : vals[m] < vals[l]

(* --------------------------- band fusion ------------------------------- *)

(* np.argmax(maps, axis=0): per pixel, the argmax layer *)
BestMap(maps) ==
    Array2(Len(maps[1]), Len(maps[1][1]),
           LAMBDA r, c : ArgMax([l \in 1..Len(maps) |-> maps[l][r][c]]))

(* the entropies and deviations arrays of get_fused_base_channel *)
BaseEntropies(level, kernel_size, k) ==
    Arr([l \in 1..Len(level) |-> EntropyMap(GrayImage(level[l], k), kernel_size)])

BaseDeviations(level, kernel_size, k) ==
    Arr([l \in 1..Len(level) |-> DeviationMap(GrayImage(level[l], k), kernel_size)])

(* faulty variant of get_fused_base_channel: the sum is not halved *)
get_fused_base_channel_unhalved(level, kernel_size, k) ==
    LET best_e == BestMap(BaseEntropies(level, kernel_size, k))
        best_d == BestMap(BaseDeviations(level, kernel_size, k))
    IN Array2(Len(level[1]), Len(level[1][1]), LAMBDA r, c :
         SumSeq([l \in 1..Len(level) |->
                   (IF best_e[r][c] = l THEN level[l][r][c][k] ELSE 0)
                 + (IF best_d[r][c] = l THEN level[l][r][c][k] ELSE 0)]))

(* faulty variant of get_fused_base_channel: the entropy pick is used twice *)
get_fused_base_channel_entropy_only(level, kernel_size, k) ==
    LET best_e == BestMap(BaseEntropies(level, kernel_size, k))
    IN Array2(Len(level[1]), Len(level[1][1]), LAMBDA r, c :
         SumSeq([l \in 1..Len(level) |->
                   (IF best_e[r][c] = l THEN level[l][r][c][k] ELSE 0)
                 + (IF best_e[r][c] = l THEN level[l][r][c][k] ELSE 0)]) \div 2)

(* get_fused_base_channel: the layers picked by entropy and by deviation are
   summed (np.where per layer) and halved *)
get_fused_base_channel(level, kernel_size, k) ==
    LET best_e == BestMap(BaseEntropies(level, kernel_size, k))
        best_d == BestMap(BaseDeviations(level, kernel_size, k))
    IN Array2(Len(level[1]), Len(level[1][1]), LAMBDA r, c :
         SumSeq([l \in 1..Len(level) |->
                   (IF best_e[r][c] = l THEN level[l][r][c][k] ELSE 0)
                 + (IF best_d[r][c] = l THEN level[l][r][c][k] ELSE 0)]) \div 2)

(* get_fused_base: every channel fused on its own *)
get_fused_base(level, kernel_size) ==
    LET chans == Arr([k \in 1..Len(level[1][1][1]) |->
                        get_fused_base_channel(level, kernel_size, k)])
    IN Array3(Len(level[1]), Len(level[1][1]), Len(chans), LAMBDA r, c, k : chans[k][r][c])

(* the region_energies array of get_fused_laplacian_channel *)
LaplacianEnergies(level, k) ==
    Arr([l \in 1..Len(level) |-> region_energy(Channel(level[l], k))])

(* get_fused_laplacian_channel: the layer of maximal region energy *)
get_fused_laplacian_channel(level, k) ==
    LET best_re == BestMap(LaplacianEnergies(level, k))
    IN Array2(Len(level[1]), Len(level[1][1]), LAMBDA r, c :
         SumSeq([l \in 1..Len(level) |->
                   IF best_re[r][c] = l THEN level[l][r][c][k] ELSE 0]))

(* get_fused_laplacian: every channel fused on its own *)
get_fused_laplacian(level) ==
    LET chans == Arr([k \in 1..Len(level[1][1][1]) |->
                        get_fused_laplacian_channel(level, k)])
    IN Array3(Len(level[1]), Len(level[1][1]), Len(chans), LAMBDA r, c, k : chans[k][r][c])

(* fuse_pyramids: base fusion of the last level, detail fusion of the
   others, in the order of the input pyramid *)
fuse_pyramids(pyr, kernel_size) ==
    Arr([lv \in 1..Len(pyr) |->
       IF lv = Len(pyr) THEN get_fused_base(pyr[lv], kernel_size)
       ELSE get_fused_laplacian(pyr[lv])])

(* get_pyramid_fusion, lines 158-159: int(np.log2(smallest_side / min_size));
   int() drops the fraction towards zero *)
RECURSIVE FloorLog2(_, _)
FloorLog2(n, d) == IF 2 * d <= n THEN 1 + FloorLog2(n, 2 * d) ELSE 0

RECURSIVE CeilLog2(_, _)
CeilLog2(n, d) == IF d < n THEN 1 + CeilLog2(n, 2 * d) ELSE 0

(* faulty variant of PyramidDepth: math.floor instead of int() *)
PyramidDepthFloor(shape, ms) ==
    LET smallest_side == Min(shape[1], shape[2])
    IN IF smallest_side >= ms THEN FloorLog2(smallest_side, ms)
       ELSE 0 - CeilLog2(ms, smallest_side)

(* faulty variant of PyramidDepth: the largest side instead of the smallest *)
PyramidDepthOfLargestSide(shape, ms) ==
    LET largest_side == Max(shape[1], shape[2])
    IN IF largest_side >= ms THEN FloorLog2(largest_side, ms)
       ELSE 0 - FloorLog2(ms, largest_side)

PyramidDepth(shape, ms) ==
    LET smallest_side == Min(shape[1], shape[2])
    IN IF smallest_side >= ms THEN FloorLog2(smallest_side, ms)
       ELSE 0 - FloorLog2(ms, smallest_side)

(* get_pyramid_fusion as one function of an equal-shaped stack *)
get_pyramid_fusion(imgs, ms) ==
    LET d == PyramidDepth(Shape(imgs[1]), ms)
        pyr == laplacian_pyramid(imgs, d)
    IN IF pyr = ValueError THEN ValueError
       ELSE collapse(fuse_pyramids(pyr, KernelSize))

(* ----------------------------- inputs ---------------------------------- *)

(* a decoded image of integer samples: dark everywhere ("dark"), bright in
   the first half of the pixels counted row by row ("upper"), or bright in
   the second half of the pixels counted column by column ("right"); even
   channels exchange dark and bright *)
MakeImage(h, w, ch, kind) ==
    Array3(h, w, ch, LAMBDA r, c, k :
      LET first == IF kind = "right" THEN 2 * ((c - 1) * h + (r - 1)) < h * w
                   ELSE 2 * ((r - 1) * w + (c - 1)) < h * w
          bright == CASE kind = "dark" -> FALSE
                      [] kind = "upper" -> first
                      [] OTHER -> ~first
      IN IF kind # "dark" /\ bright = (k % 2 = 1) THEN MaxVal ELSE 0)

Patterns == {"dark", "upper", "right"}
Channels == {1, 2}
MinSizes == {1, MaxMinSize}
(* every single-channel shape, and the square shapes of more channels *)
Shapes == {sh \in (1..MaxSide) \X (1..MaxSide) \X Channels : sh[3] = 1 \/ sh[1] = sh[2]}

(* stacks of equal-shaped images *)
EqualStacks ==
    UNION {{Arr([l \in 1..n |-> MakeImage(sh[1], sh[2], sh[3], pats[l])]) :
              pats \in [1..n -> Patterns], sh \in Shapes} : n \in 1..MaxLayers}

(* stacks whose last image has one more row, column or channel *)
RaggedStacks ==
    UNION {{Arr([l \in 1..n |-> IF l < n THEN MakeImage(sh[1], sh[2], sh[3], "upper")
                            ELSE MakeImage(sh[1] + d[1], sh[2] + d[2], sh[3] + d[3], "upper")]) :
              sh \in Shapes,
              d \in {<<1, 0, 0>>, <<0, 1, 0>>, <<0, 0, 1>>}} : n \in 2..MaxLayers}

(* larger stacks of one flat single-channel image, or of two of different
   shapes, for the depth selection and the sizes of the Gaussian levels *)
BigStacks ==
    {<<MakeImage(h, w, 1, "dark")>> : h \in 1..MaxBigSide, w \in 1..MaxBigSide}
    \cup
    {<<MakeImage(h, w, 1, "dark"), MakeImage(h + d[1], w + d[2], 1, "dark")>> :
       h \in 1..MaxBigSide, w \in {1, MaxBigSide}, d \in {<<1, 0>>, <<0, 1>>}}

SameShape(imgs) == \A l \in 1..Len(imgs) : Shape(imgs[l]) = Shape(imgs[1])

(* np.asarray of a list of images: an array when the shapes agree.  When
   they do not, it raises ValueError; a numpy that still builds ragged
   arrays returns a 1-D object array if the first dimensions differ *)
AsArrayOk(imgs) == SameShape(imgs)

AsArrayObject(imgs) ==
    /\ ~SameShape(imgs)
    /\ \E l \in 1..Len(imgs) : Len(imgs[l]) # Len(imgs[1])

(* faulty variant of MinRaises: the empty shape tail is accepted *)
MinAccepts(imgs) == FALSE

(* min(images.shape[1:3]) raises ValueError on the 1-D object array of
   images of different shapes, whose shape tail is empty *)
MinRaises(imgs) == ~SameShape(imgs)

(* images.astype(INTERNAL_DTYP) of gaussian_pyramid raises ValueError on an
   object array of images of different shapes *)
AstypeRaises(imgs) == ~SameShape(imgs)

(* ------------------------------ actions -------------------------------- *)

Init ==
    /\ pc = "start"
    /\ images \in EqualStacks \cup RaggedStacks
    /\ min_size \in MinSizes
    /\ depth = 0
    /\ gaussian = << >>
    /\ pyramids = << >>
    /\ fusion = << >>
    /\ image = << >>
    /\ layer = 0

(* stack_images: np.asarray(images), then get_pyramid_fusion is entered *)
StackImages ==
    /\ pc = "start"
    /\ \/ AsArrayOk(images) /\ pc' = "fusion"
       \/ ~AsArrayOk(images) /\ pc' = "error"
       \/ ~AsArrayOk(images) /\ AsArrayObject(images) /\ pc' = "fusion"
    /\ UNCHANGED <<images, min_size, depth, gaussian, pyramids, fusion, image, layer>>

(* get_pyramid_fusion, lines 158-160; min() raises on an object array *)
SelectDepth ==
    /\ pc = "fusion"
    /\ IF MinRaises(images)
       THEN pc' = "error" /\ UNCHANGED depth
       ELSE /\ depth' = PyramidDepth(Shape(images[1]), min_size)
            /\ pc' = "laplacian"
    /\ UNCHANGED <<images, min_size, gaussian, pyramids, fusion, image, layer>>

(* laplacian_pyramid(images, depth); images.astype would raise on an object
   array, which min() has already refused *)
BuildLaplacian ==
    /\ pc = "laplacian"
    /\ IF AstypeRaises(images)
       THEN pc' = "error" /\ UNCHANGED <<gaussian, pyramids>>
       ELSE LET g == gaussian_pyramid(images, depth)
                p == LaplacianOf(g)
            IN /\ gaussian' = g
               /\ IF p = ValueError
                  THEN pc' = "error" /\ UNCHANGED pyramids
                  ELSE pc' = "fuse" /\ pyramids' = p
    /\ UNCHANGED <<images, min_size, depth, fusion, image, layer>>

(* fuse_pyramids(pyramids, kernel_size) *)
FusePyramids ==
    /\ pc = "fuse"
    /\ fusion' = fuse_pyramids(pyramids, KernelSize)
    /\ pc' = "collapse"
    /\ UNCHANGED <<images, min_size, depth, gaussian, pyramids, image, layer>>

(* collapse(fusion), the value get_pyramid_fusion returns *)
Collapse ==
    /\ pc = "collapse"
    /\ LET out == collapse(fusion)
       IN IF out = ValueError
          THEN pc' = "error" /\ UNCHANGED image
          ELSE pc' = "done" /\ image' = out
    /\ UNCHANGED <<images, min_size, depth, gaussian, pyramids, fusion, layer>>

Next == StackImages \/ SelectDepth \/ BuildLaplacian \/ FusePyramids \/ Collapse

Spec == Init /\ [][Next]_vars

(* ---- the same run on single-channel images, for the layer order ------- *)

InitOrder ==
    /\ pc = "start"
    /\ images \in {s \in EqualStacks \cup RaggedStacks : Len(s[1][1][1]) = 1}
    /\ min_size \in MinSizes
    /\ depth = 0
    /\ gaussian = << >>
    /\ pyramids = << >>
    /\ fusion = << >>
    /\ image = << >>
    /\ layer = 0

SpecOrder == InitOrder /\ [][Next]_vars

(* ---- the depth selection and the decomposition on larger images ------ *)

InitDepth ==
    /\ pc = "start"
    /\ images \in BigStacks
    /\ min_size \in 1..MaxBigMinSize
    /\ depth = 0
    /\ gaussian = << >>
    /\ pyramids = << >>
    /\ fusion = << >>
    /\ image = << >>
    /\ layer = 0

NextDepth == StackImages \/ SelectDepth \/ BuildLaplacian

SpecDepth == InitDepth /\ [][NextDepth]_vars

(* ---- decomposition and reconstruction alone, at any depth >= 0 -------- *)

InitRT ==
    /\ pc = "rt_start"
    /\ images \in EqualStacks
    /\ depth \in 0..MaxDepth
    /\ min_size = DefaultMinSize
    /\ gaussian = << >>
    /\ pyramids = << >>
    /\ fusion = << >>
    /\ image = << >>
    /\ layer = 0

(* laplacian_pyramid(stack, depth) *)
RTLaplacian ==
    /\ pc = "rt_start"
    /\ LET g == gaussian_pyramid(images, depth)
           p == LaplacianOf(g)
       IN /\ gaussian' = g
          /\ IF p = ValueError
             THEN pc' = "error" /\ UNCHANGED pyramids
             ELSE pc' = "rt_pyramid" /\ pyramids' = p
    /\ UNCHANGED <<images, min_size, depth, fusion, image, layer>>

(* collapse of the unmodified levels of one layer *)
RTCollapse ==
    /\ pc = "rt_pyramid"
    /\ \E l \in 1..Len(images) :
         LET out == collapse(Arr([lv \in 1..Len(pyramids) |-> pyramids[lv][l]]))
         IN /\ layer' = l
            /\ IF out = ValueError
               THEN pc' = "error" /\ UNCHANGED image
               ELSE pc' = "rt_done" /\ image' = out
    /\ UNCHANGED <<images, min_size, depth, gaussian, pyramids, fusion>>

NextRT == RTLaplacian \/ RTCollapse

SpecRT == InitRT /\ [][NextRT]_vars

(* ----------------------------- properties ------------------------------ *)

Layers == 1..Len(images)
SmallestSide == Min(Len(images[1]), Len(images[1][1]))
Fused == pc \in {"collapse", "done"}
Decomposed == pc \in {"fuse", "collapse", "done"}
DepthSelected == pc \in {"laplacian", "fuse", "collapse", "done"}
Ceil2(n) == (n + 1) \div 2

(* C1: collapse of the unmodified Laplacian levels of one layer reproduces
   that layer of the stack, for every layer and every depth >= 0, and the
   decomposition and the reconstruction never fail *)
RoundTrip ==
    /\ pc # "error"
    /\ pc = "rt_done" => image = AsFloat(images[layer])

RoundTripWitness ==
    /\ pc = "rt_done"
    /\ depth = MaxDepth
    /\ layer = 2
    /\ Len(images[1]) = 3
    /\ Len(images[1][1]) = 3
    /\ images[1] # images[2]
    /\ \E r \in 1..3 : \E c \in 1..3 : pyramids[1][layer][r][c][1] # 0

(* C2: the fused image has the height, width and channel count of the
   input layers; at every level the upsampled image is at least as large as
   the level it is cropped to, every Laplacian level has the shape of its
   Gaussian level, and no step fails on a shape *)
ShapeInvariant ==
    /\ SameShape(images) => pc # "error"
    /\ Decomposed =>
         \A lv \in 1..Len(pyramids) : \A l \in Layers :
           /\ Shape(pyramids[lv][l]) = Shape(gaussian[lv][l])
           /\ lv < Len(pyramids) =>
                /\ Len(PyrUp(gaussian[lv + 1][l])) = 2 * Ceil2(Len(gaussian[lv][l]))
                /\ Len(PyrUp(gaussian[lv + 1][l])[1]) = 2 * Ceil2(Len(gaussian[lv][l][1]))
                /\ Len(PyrUp(gaussian[lv + 1][l])) >= Len(gaussian[lv][l])
                /\ Len(PyrUp(gaussian[lv + 1][l])[1]) >= Len(gaussian[lv][l][1])
    /\ Fused => \A lv \in 1..Len(fusion) : Shape(fusion[lv]) = Shape(gaussian[lv][1])
    /\ pc = "done" => Shape(image) = Shape(images[1])

ShapeWitness ==
    /\ pc = "done"
    /\ depth >= 1
    /\ Shape(images[1]) = <<3, 3, 2>>
    /\ Shape(image) = <<3, 3, 2>>
    /\ Len(images) = 2

(* C3: fusing a stack of one image returns that image *)
SingleLayer == (pc = "done" /\ Len(images) = 1) => image = AsFloat(images[1])

SingleLayerWitness ==
    /\ pc = "done"
    /\ Len(images) = 1
    /\ depth >= 1
    /\ Len(images[1]) = 3
    /\ \E r \in 1..3 : pyramids[1][1][r][1][1] # 0
    /\ image = AsFloat(images[1])

(* the depth that floor(log2(smallest / ms)) gives: the d with
   ms * 2^d <= smallest < ms * 2^(d + 1), a negative d read as a division *)
IsFloorLog2(d, smallest, ms) ==
    IF d >= 0 THEN ms * 2 ^ d <= smallest /\ smallest < ms * 2 ^ (d + 1)
    ELSE ms <= smallest * 2 ^ (0 - d) /\ smallest * 2 ^ (0 - d) < 2 * ms

(* the same with the fraction dropped towards zero *)
IsTruncLog2(d, smallest, ms) ==
    IF smallest >= ms THEN d >= 0 /\ IsFloorLog2(d, smallest, ms)
    ELSE d <= 0 /\ smallest * 2 ^ (0 - d) <= ms /\ ms < smallest * 2 ^ (1 - d)

(* C4 as stated: the depth is floor(log2(min(height, width) / minBandSize)),
   4 for 512x512 and 0 for 40x40 with minBandSize 32 *)
DepthIsFloor ==
    /\ DepthSelected => IsFloorLog2(depth, SmallestSide, min_size)
    /\ PyramidDepth(<<512, 512, 3>>, DefaultMinSize) = 4
    /\ PyramidDepth(<<40, 40, 3>>, DefaultMinSize) = 0

(* C4 amended: the depth is log2(min(height, width) / minBandSize) with its
   fraction dropped towards zero, which is the floor when the smallest side
   is at least minBandSize; 4 for 512x512 and 0 for 40x40 *)
DepthIsTruncated ==
    /\ DepthSelected =>
         /\ IsTruncLog2(depth, SmallestSide, min_size)
         /\ SmallestSide >= min_size => IsFloorLog2(depth, SmallestSide, min_size)
    /\ PyramidDepth(<<512, 512, 3>>, DefaultMinSize) = 4
    /\ PyramidDepth(<<40, 40, 3>>, DefaultMinSize) = 0

DepthWitness ==
    /\ pc = "fuse"
    /\ SmallestSide = 3
    /\ min_size = 4
    /\ depth = 0
    /\ Len(gaussian) = 1

(* C5: with the smallest side below minBandSize nothing fails, the depth is
   not positive, the pyramid is the one level of the original images, and
   the output is the base-band fusion of the original images *)
DegenerateSize ==
    SmallestSide < min_size /\ SameShape(images) =>
      /\ pc # "error"
      /\ depth <= 0
      /\ Decomposed =>
           /\ Len(gaussian) = 1
           /\ Len(pyramids) = 1
           /\ \A l \in Layers : pyramids[1][l] = AsFloat(images[l])
      /\ pc = "done" =>
           image = get_fused_base(Arr([l \in Layers |-> AsFloat(images[l])]), KernelSize)

DegenerateWitness ==
    /\ pc = "done"
    /\ SmallestSide = 1
    /\ min_size = 2
    /\ depth = -1
    /\ Len(images) = 2
    /\ images[1] # images[2]

(* C6: a stack with an image of another shape ends in an error before any
   pyramid level, statistic or fused band exists, and returns nothing *)
ShapeMismatchFatal ==
    ~SameShape(images) =>
      /\ pc \in {"start", "fusion", "error"}
      /\ depth = 0
      /\ gaussian = << >>
      /\ pyramids = << >>
      /\ fusion = << >>
      /\ image = << >>

ShapeMismatchWitness ==
    /\ pc = "error"
    /\ ~SameShape(images)
    /\ Len(images[2]) # Len(images[1])

Permute(imgs, p) == Arr([l \in 1..Len(imgs) |-> imgs[p[l]]])

(* C7 as stated: every permutation of the layers fuses to the same image *)
OrderIrrelevant ==
    pc = "done" =>
      \A p \in Permutations(Layers) : get_pyramid_fusion(Permute(images, p), min_size) = image

(* the layers that attain the maximum of a statistic at a pixel all hold the
   same sample there *)
TiesAgree(maps, level, k) ==
    \A r \in 1..Len(level[1]) : \A c \in 1..Len(level[1][1]) :
      \A l1, l2 \in 1..Len(level) :
        ((\A m \in 1..Len(level) : maps[m][r][c] <= maps[l1][r][c] /\ maps[m][r][c] <= maps[l2][r][c])
           => level[l1][r][c][k] = level[l2][r][c][k])

NoDecidingTie ==
    \A lv \in 1..Len(pyramids) : \A k \in 1..Len(images[1][1][1]) :
      IF lv = Len(pyramids)
      THEN /\ TiesAgree(BaseEntropies(pyramids[lv], KernelSize, k), pyramids[lv], k)
           /\ TiesAgree(BaseDeviations(pyramids[lv], KernelSize, k), pyramids[lv], k)
      ELSE TiesAgree(LaplacianEnergies(pyramids[lv], k), pyramids[lv], k)

(* C7 amended: every permutation of the layers fuses to the same image when,
   at every pixel of every band, the layers tied for the maximal statistic
   hold the same sample (in particular when the maximum is unique) *)
OrderIrrelevantWithoutTies ==
    (pc = "done" /\ NoDecidingTie) =>
      \A p \in Permutations(Layers) : get_pyramid_fusion(Permute(images, p), min_size) = image

OrderWitness ==
    /\ pc = "done"
    /\ NoDecidingTie
    /\ Len(images) = 2
    /\ depth >= 1
    /\ images[1] # images[2]
    /\ image = AsFloat(images[2])
    /\ get_pyramid_fusion(<<images[2], images[1]>>, min_size) = image

(* C8 as stated: the coarsest level is never smaller than minBandSize on
   its shortest side *)
CoarsestAtLeastMinSize ==
    Decomposed =>
      Min(Len(gaussian[Len(gaussian)][1]), Len(gaussian[Len(gaussian)][1][1])) >= min_size

(* C8 amended: every downsample gives ceil(dim / 2) per dimension, and when
   the input's shortest side is at least minBandSize the coarsest level is
   not smaller than minBandSize on its shortest side *)
CoarsestAtLeastMinSizeOfLargeInput ==
    Decomposed =>
      /\ \A lv \in 1..(Len(gaussian) - 1) : \A l \in Layers :
           /\ Len(gaussian[lv + 1][l]) = Ceil2(Len(gaussian[lv][l]))
           /\ Len(gaussian[lv + 1][l][1]) = Ceil2(Len(gaussian[lv][l][1]))
      /\ Len(gaussian) = Max(depth, 0) + 1
      /\ SmallestSide >= min_size =>
           Min(Len(gaussian[Len(gaussian)][1]), Len(gaussian[Len(gaussian)][1][1])) >= min_size

CoarsestWitness ==
    /\ pc = "fuse"
    /\ min_size = 2
    /\ Shape(images[1]) = <<5, 4, 1>>
    /\ depth = 1
    /\ Shape(gaussian[2][1]) = <<3, 2, 1>>

(* C9: at every detail level, channel and pixel the fused sample is the
   sample of the lowest-indexed layer of maximal region energy *)
DetailSelection ==
    Fused =>
      \A lv \in 1..(Len(pyramids) - 1) : \A k \in 1..Len(images[1][1][1]) :
        LET energy == LaplacianEnergies(pyramids[lv], k)
        IN \A r \in 1..Len(fusion[lv]) : \A c \in 1..Len(fusion[lv][1]) :
             \E l \in Layers :
               /\ \A m \in Layers : energy[m][r][c] <= energy[l][r][c]
               /\ \A m \in 1..(l - 1) : energy[m][r][c] < energy[l][r][c]
               /\ fusion[lv][r][c][k] = pyramids[lv][l][r][c][k]

DetailWitness ==
    /\ Fused
    /\ Len(pyramids) >= 2
    /\ Len(images) = 2
    /\ LET energy == LaplacianEnergies(pyramids[1], 1)
       IN /\ \E r \in 1..Len(fusion[1]) : \E c \in 1..Len(fusion[1][1]) :
               /\ energy[1][r][c] = energy[2][r][c]
               /\ pyramids[1][1][r][c][1] # pyramids[1][2][r][c][1]
               /\ fusion[1][r][c][1] = pyramids[1][1][r][c][1]
          /\ \E r \in 1..Len(fusion[1]) : \E c \in 1..Len(fusion[1][1]) :
               /\ energy[1][r][c] < energy[2][r][c]
               /\ pyramids[1][1][r][c][1] # pyramids[1][2][r][c][1]
               /\ fusion[1][r][c][1] = pyramids[1][2][r][c][1]

(* C10: at the coarsest level the fused sample is half the sum of the
   samples of the lowest-indexed layers of maximal entropy and of maximal
   deviation, the layer's own sample when both are the same layer, and lies
   between the least and the greatest sample of the layers at that pixel *)
BaseBlend ==
    Fused =>
      LET top == Len(pyramids)
          base == pyramids[top]
      IN \A k \in 1..Len(images[1][1][1]) :
           LET entropy == BaseEntropies(base, KernelSize, k)
               deviation == BaseDeviations(base, KernelSize, k)
           IN \A r \in 1..Len(fusion[top]) : \A c \in 1..Len(fusion[top][1]) :
                \E le, ld \in Layers :
                  /\ \A m \in Layers : entropy[m][r][c] <= entropy[le][r][c]
                  /\ \A m \in 1..(le - 1) : entropy[m][r][c] < entropy[le][r][c]
                  /\ \A m \in Layers : deviation[m][r][c] <= deviation[ld][r][c]
                  /\ \A m \in 1..(ld - 1) : deviation[m][r][c] < deviation[ld][r][c]
                  /\ 2 * fusion[top][r][c][k] = base[le][r][c][k] + base[ld][r][c][k]
                  /\ le = ld => fusion[top][r][c][k] = base[le][r][c][k]
                  /\ \E m \in Layers : base[m][r][c][k] <= fusion[top][r][c][k]
                  /\ \E m \in Layers : base[m][r][c][k] >= fusion[top][r][c][k]

BaseBlendWitness ==
    /\ Fused
    /\ Len(images) = 2
    /\ depth >= 1
    /\ LET base == pyramids[Len(pyramids)]
           entropy == BaseEntropies(base, KernelSize, 1)
           deviation == BaseDeviations(base, KernelSize, 1)
       IN /\ entropy[2][1][1] > entropy[1][1][1]
          /\ deviation[1][1][1] >= deviation[2][1][1]
          /\ base[1][1][1][1] # base[2][1][1][1]
          /\ 2 * fusion[Len(pyramids)][1][1][1] = base[1][1][1][1] + base[2][1][1][1]

====
